---- MODULE Spec2Model ----
(***************************************************************************)
(* Credit decision memory: the outcome labeler (synthetic_time_shift.py),  *)
(* the feature encoder (vectorizing.py), the bulk ingestion loop           *)
(* (qdrant_ingest.py), the similarity engine (similarity_engine.py) and    *)
(* the Streamlit session (ui_app.py).  The scripts are separate processes  *)
(* that meet only through files and the vector index, so each has its own  *)
(* specification over the shared variables.                                *)
(***************************************************************************)
EXTENDS Integers, Sequences, FiniteSets, TLC

VARIABLES
    clock,            \* the system date datetime.now().date() would return
    raw_df,           \* data/loan_applications_final.csv as read by the labeler
    labelled_df,      \* data/loan_applications_synthetic_time.csv (<<>> before a run)
    prev_labelled,    \* history: the file the previous labeler run wrote
    corpus,           \* the frame vectorizing.py fits the preprocessor on
    preprocessor,     \* vector_preprocessor.joblib (None until fitted)
    vectors,          \* loan_vectors.npy as written by vectorizing.py
    query_vector,     \* the vector find_similar_loans last sent to the index
    ing_pc,           \* qdrant_ingest.py: "idle", "loop" or "done"
    ing_df,           \* the frame the running ingestion read
    ing_vectors,      \* data/loan_vectors.npy as read by the ingestion
    start,            \* loop variable of the batch loop
    batches,          \* history: the upsert requests of the current run, in order
    overwrote,        \* history: an upsert replaced a point by a different one
    index,            \* the points of the collection credit_decision_memory
    analysis_result,  \* st.session_state.analysis_result
    application_data, \* st.session_state.application_data
    chart_path,       \* st.session_state.chart_path
    ui_run,           \* history: what the last run of the ui_app.py script did
    result_source,    \* history: the application whose analysis was cached last
    environ,          \* os.environ of the process a script starts in
    dotenv,           \* the .env file at the project root
    startup           \* per script: how far its module-level start has come

labelVars == <<clock, raw_df, labelled_df, prev_labelled>>
encVars   == <<corpus, preprocessor, vectors, query_vector>>

ingVars   == <<ing_pc, ing_df, ing_vectors, start, batches, overwrote>>

uiVars    == <<analysis_result, application_data, chart_path, ui_run,
               result_source>>

startVars == <<environ, dotenv, startup>>

vars == <<labelVars, encVars, ingVars, index, uiVars, startVars>>

\* ------------------------------------------------------------------
\* Optional values: NaN / NaT / None are the empty tuple, a value v is <<v>>.
\* ------------------------------------------------------------------
NaN  == <<>>
NaT  == <<>>
None == <<>>
Some(v) == <<v>>
notna(x) == x # <<>>

\* ------------------------------------------------------------------
\* Configuration read at script start (os.getenv, load_dotenv, QdrantClient)
\* ------------------------------------------------------------------
Scripts == {"similarity_engine", "qdrant_ingest", "query_qdrant"}

EnvKeys == {"QDRANT_URL", "QDRANT_API_KEY", "url", "Api"}

\* A variable is unset (None), set to the empty string, or set to a value.
EnvValues == {None, Some(""), Some("configured")}

\* load_dotenv(path): the file sets a key only where the environment has none.
load_dotenv(env, file) ==
    [k \in EnvKeys |-> IF env[k] # None THEN env[k] ELSE file[k]]

getenv(env, key) == env[key]

\* The engine reads the process environment; the two scripts load .env first.
Environment(script) ==
    IF script = "similarity_engine" THEN environ ELSE load_dotenv(environ, dotenv)

UrlKey(script) == IF script = "similarity_engine" THEN "QDRANT_URL" ELSE "url"

ApiKey(script) == IF script = "similarity_engine" THEN "QDRANT_API_KEY" ELSE "Api"

MissingConfigError(script) ==
    IF script = "similarity_engine" THEN "RuntimeError" ELSE "ValueError"

\* Python truth value of an optional string: None and "" are false.
Truthy(v) == v # None /\ v # Some("")

\* A check that lets a half-configured process through.
ConfigMissingBoth(QDRANT_URL, QDRANT_API_KEY) ==
    ~Truthy(QDRANT_URL) /\ ~Truthy(QDRANT_API_KEY)

\* if not QDRANT_URL or not QDRANT_API_KEY
ConfigMissing(QDRANT_URL, QDRANT_API_KEY) ==
    ~Truthy(QDRANT_URL) \/ ~Truthy(QDRANT_API_KEY)

\* QdrantClient(url=..., api_key=...): without a url the library connects
\* to its default local endpoint.
QdrantClient(url, api_key) ==
    [url     |-> IF url = None THEN Some("localhost") ELSE url,
     api_key |-> api_key]

NotStarted == [pc |-> "not run", error |-> None, client |-> None]

Raised(error, client) == [pc |-> "raised", error |-> Some(error), client |-> client]

Ready(client) == [pc |-> "ready", error |-> None, client |-> Some(client)]

\* The module-level statements of a script up to its first index request.
\* artefact is the stored preprocessor file (None when it does not exist).
ScriptStartup(script, artefact) ==
    LET QDRANT_URL     == getenv(Environment(script), UrlKey(script))
        QDRANT_API_KEY == getenv(Environment(script), ApiKey(script))
        client         == QdrantClient(QDRANT_URL, QDRANT_API_KEY)
    IN  IF ConfigMissing(QDRANT_URL, QDRANT_API_KEY)
        THEN Raised(MissingConfigError(script), None)
        ELSE IF script = "similarity_engine"
        THEN (IF artefact = None THEN Raised("FileNotFoundError", None)
              ELSE Ready(client))
        ELSE IF script = "query_qdrant"
        THEN (IF artefact = None THEN Raised("FileNotFoundError", Some(client))
              ELSE Ready(client))
        ELSE Ready(client)

DeployedEnviron == [k \in EnvKeys |-> Some("configured")]

EmptyDotenv == [k \in EnvKeys |-> None]

\* The page has imported similarity_engine in a configured deployment.
EngineImported ==
    /\ environ = DeployedEnviron
    /\ dotenv = EmptyDotenv
    /\ startup = [s \in Scripts |->
                    IF s = "similarity_engine"
                    THEN Ready(QdrantClient(DeployedEnviron.QDRANT_URL,
                                            DeployedEnviron.QDRANT_API_KEY))
                    ELSE NotStarted]

\* Every script configured and none of them under observation.
StartupDone ==
    /\ environ = DeployedEnviron
    /\ dotenv = EmptyDotenv
    /\ startup = [s \in Scripts |-> NotStarted]

\* ------------------------------------------------------------------
\* Calendar arithmetic (pandas Timestamp / DateOffset).  A date is <<y, m, d>>.
\* ------------------------------------------------------------------
IsLeap(y) == ((y % 4) = 0 /\ (y % 100) # 0) \/ (y % 400) = 0

DaysInMonth(y, m) ==
    IF m = 2 THEN (IF IsLeap(y) THEN 29 ELSE 28)
    ELSE IF m \in {4, 6, 9, 11} THEN 30 ELSE 31

\* Days since 1970-01-01 of a proleptic Gregorian date.
DaysFromCivil(date) ==
    LET y   == IF date[2] <= 2 THEN date[1] - 1 ELSE date[1]
        era == y \div 400
        yoe == y - (era * 400)
        mp  == (date[2] + 9) % 12
        doy == (((153 * mp) + 2) \div 5) + date[3] - 1
        doe == (yoe * 365) + (yoe \div 4) - (yoe \div 100) + doy
    IN  (era * 146097) + doe - 719468

\* date - pd.DateOffset(months=n): same day of month, clipped to the month's end.
MinusMonths(date, n) ==
    IF date = NaT THEN NaT
    ELSE LET total == (date[1] * 12) + (date[2] - 1) - n
             y     == total \div 12
             m     == (total % 12) + 1
             dim   == DaysInMonth(y, m)
         IN  <<y, m, IF date[3] > dim THEN dim ELSE date[3]>>

\* ------------------------------------------------------------------
\* synthetic_time_shift.py
\* ------------------------------------------------------------------
SHIFT_MONTHS == 36

\* ((TODAY - shifted).dt.days / 30.44).round(1), kept in tenths of a month.
\* days*1000/3044 is never half-way between two integers (3044 = 4*761 and
\* 500*days is never an odd multiple of 761), so rounding needs no tie rule.
loan_age_months(shifted, today) ==
    IF shifted = NaT THEN NaN
    ELSE LET days == DaysFromCivil(today) - DaysFromCivil(shifted)
         IN  Some(((days * 2000) + 3044) \div 6088)

\* Comparisons of a float column with NaN are False.
AgeGeTenure(age, tenure) == notna(age) /\ age[1] >= tenure * 10

EarlyDefault(row) ==
    notna(row.time_to_default_months) /\ row.time_to_default_months[1] <= 6

\* Mask of the "Defaulted" assignment.
DefaultedMask(row) == row.fraud_flag = 1 \/ EarlyDefault(row)

RepaidMaskAgeOnly(row) == AgeGeTenure(row.loan_age_months, row.loan_tenure_months)

RepaidMaskStrict(row) ==
    /\ notna(row.loan_age_months)
    /\ row.loan_age_months[1] > row.loan_tenure_months * 10
    /\ row.fraud_flag = 0
    /\ ~EarlyDefault(row)

\* Mask of the "Repaid" assignment.
RepaidMask(row) ==
    /\ AgeGeTenure(row.loan_age_months, row.loan_tenure_months)
    /\ row.fraud_flag = 0
    /\ ~EarlyDefault(row)

\* The three column assignments, in program order, for one row.
loan_outcome(row) ==
    LET l0 == "In_Progress"
        l1 == IF DefaultedMask(row) THEN "Defaulted" ELSE l0
        l2 == IF RepaidMask(row) THEN "Repaid" ELSE l1
    IN  l2

\* One row of the output frame: the new columns added to the input row.
LabelRow(raw, today) ==
    LET shifted == MinusMonths(raw.application_date, SHIFT_MONTHS)
        aged    == [application_date         |-> raw.application_date,
                    fraud_flag               |-> raw.fraud_flag,
                    time_to_default_months   |-> raw.time_to_default_months,
                    loan_tenure_months       |-> raw.loan_tenure_months,
                    shifted_application_date |-> shifted,
                    loan_age_months          |-> loan_age_months(shifted, today)]
    IN  [application_date         |-> aged.application_date,
         fraud_flag               |-> aged.fraud_flag,
         time_to_default_months   |-> aged.time_to_default_months,
         loan_tenure_months       |-> aged.loan_tenure_months,
         shifted_application_date |-> aged.shifted_application_date,
         loan_age_months          |-> aged.loan_age_months,
         loan_outcome             |-> loan_outcome(aged)]

\* Inputs of the labeler.
MaxRecords == 2

ApplicationDates == {<<2024, 1, 10>>, <<2024, 2, 29>>, NaT}
ClockDates       == {<<2025, 1, 10>>, <<2026, 1, 10>>, <<2027, 3, 1>>}
FirstClock       == <<2025, 1, 10>>

RawRows ==
    [application_date       : ApplicationDates,
     fraud_flag             : {0, 1},
     time_to_default_months : {NaN, Some(6), Some(7)},
     loan_tenure_months     : {48, 60}]

SeqsUpTo(S, n) == UNION {[1..k -> S] : k \in 0..n}

\* The encoder's files before vectorizing.py has run.
EncIdle ==
    /\ corpus = <<>>
    /\ preprocessor = None
    /\ vectors = <<>>
    /\ query_vector = None

\* No browser session: nothing cached, no script run yet.
NoRun ==
    [trigger |-> "none", search |-> "none", n_hits |-> 0, shown |-> "none",
     error |-> None, rendered |-> None, risk_segment |-> "",
     outcome_counts |-> None, report |-> None]

UiIdle ==
    /\ analysis_result = None
    /\ application_data = None
    /\ chart_path = None
    /\ ui_run = NoRun
    /\ result_source = None

\* The ingestion script not started, the collection empty.
IngestIdle ==
    /\ ing_pc = "idle"
    /\ ing_df = <<>>
    /\ ing_vectors = <<>>
    /\ start = 0
    /\ batches = <<>>
    /\ overwrote = FALSE

InitLabeler ==
    /\ EncIdle
    /\ IngestIdle
    /\ UiIdle
    /\ StartupDone
    /\ index = {}
    /\ clock = FirstClock
    /\ raw_df \in SeqsUpTo(RawRows, MaxRecords)
    /\ labelled_df = <<>>
    /\ prev_labelled = <<>>

\* The system clock moves between runs of the script.
Tick ==
    /\ \E d \in ClockDates :
          /\ DaysFromCivil(d) > DaysFromCivil(clock)
          /\ clock' = d
    /\ UNCHANGED <<raw_df, labelled_df, prev_labelled, encVars, ingVars, index, uiVars,
                 startVars>>

\* One run of synthetic_time_shift.py: TODAY is read from the system clock.
RunLabeler ==
    LET TODAY == clock
    IN  /\ labelled_df' = [i \in 1..Len(raw_df) |-> LabelRow(raw_df[i], TODAY)]
        /\ prev_labelled' = labelled_df
        /\ UNCHANGED <<clock, raw_df, encVars, ingVars, index, uiVars,
                 startVars>>

NextLabeler == Tick \/ RunLabeler

SpecLabeler == InitLabeler /\ [][NextLabeler]_vars

\* ------------------------------------------------------------------
\* vectorizing.py: ColumnTransformer(StandardScaler, OneHotEncoder)
\* ------------------------------------------------------------------
numerical_features ==
    <<"monthly_income", "existing_emis_monthly", "debt_to_income_ratio",
      "loan_amount_requested", "loan_tenure_months", "interest_rate_offered",
      "cibil_score", "applicant_age", "number_of_dependents">>

categorical_features ==
    <<"employment_status", "property_ownership_status", "loan_type",
      "purpose_of_loan">>

\* Every category value an input can carry, per field, in the (lexicographic)
\* order np.unique sorts them: categories_ is the observed subsequence.
SortedValues ==
    [employment_status         |-> <<"Salaried", "Student">>,
     property_ownership_status |-> <<"Owned">>,
     loan_type                 |-> <<"Auto Loan", "Home Loan", "Personal Loan">>,
     purpose_of_loan           |-> <<"Education">>]

Range(f) == {f[i] : i \in DOMAIN f}

\* Numeric columns.  debt_to_income_ratio is kept in units of 1/10000 and
\* interest_rate_offered in units of 1/100: standardisation is invariant under
\* the unit of a column.
NumProfiles ==
    {[monthly_income |-> 10000, existing_emis_monthly |-> 900,
      debt_to_income_ratio |-> 900, loan_amount_requested |-> 10000,
      loan_tenure_months |-> 24, interest_rate_offered |-> 950,
      cibil_score |-> 760, applicant_age |-> 32, number_of_dependents |-> 1],
     [monthly_income |-> 5000, existing_emis_monthly |-> 1200,
      debt_to_income_ratio |-> 2400, loan_amount_requested |-> 8000,
      loan_tenure_months |-> 36, interest_rate_offered |-> 950,
      cibil_score |-> 680, applicant_age |-> 34, number_of_dependents |-> 2]}

CatProfiles ==
    [employment_status         : Range(SortedValues.employment_status),
     property_ownership_status : Range(SortedValues.property_ownership_status),
     loan_type                 : Range(SortedValues.loan_type),
     purpose_of_loan           : Range(SortedValues.purpose_of_loan)]

\* Application records: the 9 numeric and 4 categorical fields.
ApplicationRecords == {np @@ cp : np \in NumProfiles, cp \in CatProfiles}

RECURSIVE ColumnSum(_, _, _)
ColumnSum(df, f, n) ==
    IF n = 0 THEN 0 ELSE ColumnSum(df, f, n - 1) + df[n][f]

RECURSIVE ColumnSumSq(_, _, _)
ColumnSumSq(df, f, n) ==
    IF n = 0 THEN 0 ELSE ColumnSumSq(df, f, n - 1) + (df[n][f] * df[n][f])

\* np.unique of a column: the sorted distinct values observed in it.
categories_(df, f) ==
    SelectSeq(SortedValues[f], LAMBDA v : \E i \in DOMAIN df : df[i][f] = v)

\* preprocessor.fit: per numeric column the sample count, sum and sum of
\* squares (mean_ = sum/n, var_ = sumsq/n - mean_^2), per categorical column
\* its categories_.
fit(df) ==
    [n          |-> Len(df),
     sum        |-> [i \in DOMAIN numerical_features |->
                        ColumnSum(df, numerical_features[i], Len(df))],
     sumsq      |-> [i \in DOMAIN numerical_features |->
                        ColumnSumSq(df, numerical_features[i], Len(df))],
     categories |-> [i \in DOMAIN categorical_features |->
                        categories_(df, categorical_features[i])]]

\* Vector entries are exact: [num, den2] stands for num / sqrt(den2).
Zero == [num |-> 0, den2 |-> 1]
One  == [num |-> 1, den2 |-> 1]

\* StandardScaler.transform of column i: (x - mean_) / scale_, where scale_ is
\* sqrt(var_), or 1 when var_ is 0.
Scaled(pre, i, x) ==
    LET v == (pre.n * pre.sumsq[i]) - (pre.sum[i] * pre.sum[i])
    IN  [num  |-> (x * pre.n) - pre.sum[i],
         den2 |-> IF v = 0 THEN pre.n * pre.n ELSE v]

\* An encoder that puts a value it has not seen into the first category.
OneHotBlockUnknownFirst(cats, value) ==
    [j \in DOMAIN cats |->
        IF cats[j] = value \/ (j = 1 /\ \A i \in DOMAIN cats : cats[i] # value)
        THEN One ELSE Zero]

\* OneHotEncoder(handle_unknown="ignore").transform of one column: one entry
\* per fitted category, all zero for a value that is not among them.
OneHotBlock(cats, value) ==
    [j \in DOMAIN cats |-> IF cats[j] = value THEN One ELSE Zero]

RECURSIVE OneHotBlocks(_, _, _)
OneHotBlocks(pre, rec, k) ==
    IF k = 0 THEN <<>>
    ELSE OneHotBlocks(pre, rec, k - 1)
            \o OneHotBlock(pre.categories[k], rec[categorical_features[k]])

transform_fitted(pre, rec) ==
    [i \in DOMAIN numerical_features |-> Scaled(pre, i, rec[numerical_features[i]])]
        \o OneHotBlocks(pre, rec, Len(categorical_features))

\* A transform that fits again on the record it is given.
transform_refit(pre, rec) == transform_fitted(fit(<<rec>>), rec)

\* preprocessor.transform(df)[0] for a one-row frame.
transform(pre, rec) == transform_fitted(pre, rec)

MaxCorpus == 2

InitEncoder ==
    /\ clock = FirstClock
    /\ raw_df = <<>>
    /\ labelled_df = <<>>
    /\ prev_labelled = <<>>
    /\ corpus \in SeqsUpTo(ApplicationRecords, MaxCorpus)
    /\ preprocessor = None
    /\ vectors = <<>>
    /\ query_vector = None
    /\ IngestIdle
    /\ UiIdle
    /\ StartupDone
    /\ index = {}

\* One run of vectorizing.py: fit_transform, then dump both artifacts.
\* sklearn refuses to fit on a frame with no rows, and nothing is written.
RunVectorizing ==
    /\ IF corpus = <<>>
       THEN UNCHANGED <<preprocessor, vectors>>
       ELSE LET fitted == fit(corpus)
            IN  /\ preprocessor' = Some(fitted)
                /\ vectors' = [i \in DOMAIN corpus |-> transform(fitted, corpus[i])]
    /\ UNCHANGED <<corpus, query_vector, labelVars, ingVars, index, uiVars,
                 startVars>>

\* similarity_engine.py lines 62-71: the loaded preprocessor encodes the
\* application; the module does not import without the joblib file.
EncodeQuery ==
    /\ preprocessor # None
    /\ \E loan_dict \in ApplicationRecords :
          query_vector' = Some(transform(preprocessor[1], loan_dict))
    /\ UNCHANGED <<corpus, preprocessor, vectors, labelVars, ingVars, index, uiVars,
                 startVars>>

NextEncoder == RunVectorizing \/ EncodeQuery

SpecEncoder == InitEncoder /\ [][NextEncoder]_vars

\* ------------------------------------------------------------------
\* qdrant_ingest.py
\* ------------------------------------------------------------------
\* 500 in the source; scaled down so that a few rows fill several batches.
BATCH_SIZE == 2

MaxRows == 3

\* What the labeler can write into a row of the synthetic-time file.
LabelledRows == {LabelRow(r, d) : r \in RawRows, d \in ClockDates}

OutcomeColumns ==
    {[loan_outcome           |-> l.loan_outcome,
      fraud_flag             |-> l.fraud_flag,
      time_to_default_months |-> l.time_to_default_months] : l \in LabelledRows}

\* A row of data/loan_applications_synthetic_time.csv, with the columns the
\* ingestion reads.
CsvRow(o, id) ==
    [application_id         |-> id,
     loan_status            |-> IF o.fraud_flag = 1 THEN "Fraudulent" ELSE "Approved",
     loan_outcome           |-> o.loan_outcome,
     fraud_flag             |-> o.fraud_flag,
     fraud_type             |-> IF o.fraud_flag = 1 THEN "Identity Theft" ELSE "None",
     loan_type              |-> "Personal Loan",
     purpose_of_loan        |-> "Education",
     time_to_default_months |-> o.time_to_default_months]

IngestColumns ==
    {o \in OutcomeColumns :
        /\ o.time_to_default_months # Some(7)
        /\ (o.fraud_flag = 1) <=> (o.time_to_default_months = Some(6))}

\* The frames of n rows the ingestion can read.
Frames(n) == {[i \in 1..n |-> CsvRow(f[i], i)] : f \in [1..n -> IngestColumns]}

\* The vectors the file holds: rows encoded by a fitted preprocessor.
DeployedCorpus ==
    <<[monthly_income |-> 10000, existing_emis_monthly |-> 900,
       debt_to_income_ratio |-> 900, loan_amount_requested |-> 10000,
       loan_tenure_months |-> 24, interest_rate_offered |-> 950,
       cibil_score |-> 760, applicant_age |-> 32, number_of_dependents |-> 1,
       employment_status |-> "Salaried", property_ownership_status |-> "Owned",
       loan_type |-> "Personal Loan", purpose_of_loan |-> "Education"],
      [monthly_income |-> 5000, existing_emis_monthly |-> 1200,
       debt_to_income_ratio |-> 2400, loan_amount_requested |-> 8000,
       loan_tenure_months |-> 36, interest_rate_offered |-> 950,
       cibil_score |-> 680, applicant_age |-> 34, number_of_dependents |-> 2,
       employment_status |-> "Student", property_ownership_status |-> "Owned",
       loan_type |-> "Auto Loan", purpose_of_loan |-> "Education"]>>

DeployedPreprocessor == fit(DeployedCorpus)

DeployedVectors ==
    {transform(DeployedPreprocessor, DeployedCorpus[i]) : i \in DOMAIN DeployedCorpus}

\* pd.isna / int() on the months-to-default column: None for NaN, else the
\* whole number of months the column holds.
PayloadMonths(x) == IF notna(x) THEN Some(x[1]) ELSE None

\* The payload dictionary built from row idx of the frame.
Payload(row) ==
    [application_id         |-> row.application_id,
     loan_status            |-> row.loan_status,
     loan_outcome           |-> row.loan_outcome,
     fraud_flag             |-> row.fraud_flag,
     fraud_type             |-> row.fraud_type,
     loan_type              |-> row.loan_type,
     purpose_of_loan        |-> row.purpose_of_loan,
     time_to_default_months |-> PayloadMonths(row.time_to_default_months)]

\* An id counted from the start of the batch instead of the frame.
PointIdInBatch(idx, batch_start) == idx - batch_start

\* PointStruct(id=idx, ...)
PointId(idx, batch_start) == idx

\* PointStruct(id=idx, vector=vectors[idx], payload=payload); idx counts from 0.
PointStruct(df, vecs, idx, batch_start) ==
    [id      |-> PointId(idx, batch_start),
     vector  |-> vecs[idx + 1],
     payload |-> Payload(df[idx + 1])]

Min(a, b) == IF a < b THEN a ELSE b

\* An inner loop that stops one row short of end.
BatchPointsShort(df, vecs, batch_start) ==
    LET end == Min(batch_start + BATCH_SIZE, Len(df))
    IN  [j \in 1..(end - batch_start - 1) |->
            PointStruct(df, vecs, batch_start + j - 1, batch_start)]

\* points of one iteration of the outer loop: rows batch_start .. end-1.
BatchPoints(df, vecs, batch_start) ==
    LET end == Min(batch_start + BATCH_SIZE, Len(df))
    IN  [j \in 1..(end - batch_start) |->
            PointStruct(df, vecs, batch_start + j - 1, batch_start)]

\* client.upsert: each point replaces the stored point of the same id.
RECURSIVE Upsert(_, _, _)
Upsert(stored, points, k) ==
    IF k = 0 THEN stored
    ELSE LET before == Upsert(stored, points, k - 1)
         IN  {q \in before : q.id # points[k].id} \cup {points[k]}

InitIngest ==
    /\ clock = FirstClock
    /\ raw_df = <<>>
    /\ labelled_df = <<>>
    /\ prev_labelled = <<>>
    /\ EncIdle
    /\ ing_pc = "idle"
    /\ ing_df = <<>>
    /\ ing_vectors \in SeqsUpTo(DeployedVectors, MaxRows)
    /\ start = 0
    /\ batches = <<>>
    /\ overwrote = FALSE
    /\ index = {}
    /\ UiIdle
    /\ StartupDone

\* Script start: the frame and the vectors are read, the loop begins at 0.
\* The frame has one row per stored vector; its labels are those of the file
\* at the time of the run.
IngestStart ==
    /\ ing_pc \in {"idle", "done"}
    /\ ing_df' \in Frames(Len(ing_vectors))
    /\ ing_pc' = "loop"
    /\ start' = 0
    /\ batches' = <<>>
    /\ UNCHANGED <<ing_vectors, overwrote, index, labelVars, encVars, uiVars,
                 startVars>>

\* One iteration of "for start in range(0, total_points, BATCH_SIZE)".
IngestBatch ==
    /\ ing_pc = "loop"
    /\ start < Len(ing_df)
    /\ LET points == BatchPoints(ing_df, ing_vectors, start)
       IN  /\ index' = Upsert(index, points, Len(points))
           /\ batches' = Append(batches, points)
           /\ overwrote' =
                 (overwrote \/ \E j \in DOMAIN points : \E q \in index :
                                  q.id = points[j].id /\ q # points[j])
    /\ start' = start + BATCH_SIZE
    /\ UNCHANGED <<ing_pc, ing_df, ing_vectors, labelVars, encVars, uiVars,
                 startVars>>

\* The range is exhausted: the script prints its last line and exits.
IngestFinish ==
    /\ ing_pc = "loop"
    /\ start >= Len(ing_df)
    /\ ing_pc' = "done"
    /\ UNCHANGED <<ing_df, ing_vectors, start, batches, overwrote, index,
                   labelVars, encVars, uiVars, startVars>>

NextIngest == IngestStart \/ IngestBatch \/ IngestFinish

SpecIngest == InitIngest /\ [][NextIngest]_vars

\* One run of the script on a fresh collection.  The interpreter keeps
\* executing a started script: an iteration that can run does run, and the
\* exhausted loop is left.  Starting the run is up to the operator and
\* carries no fairness.
IngestFirstRun == ing_pc = "idle" /\ IngestStart

NextIngestRun == IngestFirstRun \/ IngestBatch \/ IngestFinish

SpecIngestRun ==
    /\ InitIngest
    /\ [][NextIngestRun]_vars
    /\ WF_vars(IngestBatch)
    /\ WF_vars(IngestFinish)

\* ------------------------------------------------------------------
\* similarity_engine.py
\* ------------------------------------------------------------------
TOP_K == 10

\* dict.get(key, default)
Get(d, key, default) == IF key \in DOMAIN d THEN d[key] ELSE default

\* list.count(value)
Count(list, value) == Cardinality({i \in DOMAIN list : list[i] = value})

RECURSIVE SumList(_, _)
SumList(list, n) == IF n = 0 THEN 0 ELSE SumList(list, n - 1) + list[n]

\* count / total * 100, kept exact as the fraction num/den.  For the totals
\* reached here the float result compares with 30, 60 and 100 as the fraction
\* does.
Pct(count, total) == [num |-> count * 100, den |-> total]

\* The literal 0 of the empty summary.
Number(n) == [num |-> n, den |-> 1]

\* float(np.mean(scores)); scores are in thousandths.
Mean(scores) == [num |-> SumList(scores, Len(scores)), den |-> Len(scores)]

\* The collection's similarity metric is configured outside this repository;
\* the score stands for it as the share of equal entries, in thousandths.
Score(u, v) ==
    IF Len(u) # Len(v) THEN 0
    ELSE (1000 * Cardinality({i \in DOMAIN u : u[i] = v[i]})) \div Len(u)

\* The best hits of a scored set, best first (ties by id).
RECURSIVE Ranked(_, _)
Ranked(hits, limit) ==
    IF limit = 0 \/ hits = {} THEN <<>>
    ELSE LET best == CHOOSE p \in hits : \A q \in hits :
                        \/ p.score > q.score
                        \/ (p.score = q.score /\ p.id <= q.id)
         IN  <<best>> \o Ranked(hits \ {best}, limit - 1)

\* The stored points nearest to the query vector: at most limit hits.
Nearest(stored, vector, limit) ==
    Ranked({[id |-> p.id, payload |-> p.payload,
             score |-> Score(vector, p.vector)] : p \in stored}, limit)

\* What client.search can raise; "" is a call that succeeds.
SearchErrors == {"timed out", "bad request"}
Faults       == {""} \cup SearchErrors

\* client.search(collection_name, query_vector, limit): the ranked hits, or the
\* exception of the client.
client_search(vector, limit, fault) ==
    IF fault # ""
    THEN [ok |-> FALSE, hits |-> <<>>, error |-> fault]
    ELSE [ok |-> TRUE, hits |-> Nearest(index, vector, limit), error |-> ""]

\* Lines 87-95: the summary returned when there are no payloads.
ZeroSummary ==
    [total_cases |-> 0, repaid_pct |-> Number(0), defaulted_pct |-> Number(0),
     in_progress_pct |-> Number(0), fraud_cases |-> 0,
     avg_similarity |-> Number(0), cases |-> <<>>]

\* A search failure answered with the zero-filled summary instead of an error.
SearchFailedAsEmpty(e) ==
    [raised |-> FALSE, error |-> None, value |-> Some(ZeroSummary)]

\* except Exception as e: raise RuntimeError(f"Qdrant search failed: {e}")
SearchFailed(e) ==
    [raised |-> TRUE, error |-> Some(<<"Qdrant search failed: ", e>>), value |-> None]

\* Counts that report every defaulted neighbour as a fraud case.
CountsFraudAsDefaulted(payloads, scores) ==
    LET outcomes == [i \in DOMAIN payloads |-> Get(payloads[i], "loan_outcome", None)]
        total    == Len(outcomes)
    IN  [total_cases     |-> total,
         repaid_pct      |-> Pct(Count(outcomes, "Repaid"), total),
         defaulted_pct   |-> Pct(Count(outcomes, "Defaulted"), total),
         in_progress_pct |-> Pct(Count(outcomes, "In Progress"), total),
         fraud_cases     |-> Count(outcomes, "Defaulted"),
         avg_similarity  |-> Mean(scores),
         cases           |-> payloads]

\* Lines 97-109: the counts over a non-empty list of payloads.
Counts(payloads, scores) ==
    LET outcomes == [i \in DOMAIN payloads |-> Get(payloads[i], "loan_outcome", None)]
        frauds   == [i \in DOMAIN payloads |-> Get(payloads[i], "fraud_flag", 0)]
        total    == Len(outcomes)
    IN  [total_cases     |-> total,
         repaid_pct      |-> Pct(Count(outcomes, "Repaid"), total),
         defaulted_pct   |-> Pct(Count(outcomes, "Defaulted"), total),
         in_progress_pct |-> Pct(Count(outcomes, "In Progress"), total),
         fraud_cases     |-> SumList(frauds, Len(frauds)),
         avg_similarity  |-> Mean(scores),
         cases           |-> payloads]

\* The aggregation without its empty-result branch: total is 0 in the division.
SummariseNoEmptyCase(payloads, scores) ==
    IF payloads = <<>>
    THEN [raised |-> TRUE, error |-> Some(<<"division by zero", "">>), value |-> None]
    ELSE [raised |-> FALSE, error |-> None, value |-> Some(Counts(payloads, scores))]

\* Lines 86-109: the zero-filled summary for no payloads, else the counts.
Summarise(payloads, scores) ==
    IF payloads = <<>>
    THEN [raised |-> FALSE, error |-> None, value |-> Some(ZeroSummary)]
    ELSE [raised |-> FALSE, error |-> None, value |-> Some(Counts(payloads, scores))]

\* find_similar_loans(loan_dict, k); fault is what the service does to the call.
\* The result carries the vector that was sent.
find_similar_loans(loan_dict, k, fault) ==
    LET vector  == transform(preprocessor[1], loan_dict)
        outcome == client_search(vector, k, fault)
        return  == IF ~outcome.ok THEN SearchFailed(outcome.error)
                   ELSE LET results  == outcome.hits
                            payloads == [i \in DOMAIN results |-> results[i].payload]
                            scores   == [i \in DOMAIN results |-> results[i].score]
                        IN  Summarise(payloads, scores)
    IN  [raised |-> return.raised, error |-> return.error, value |-> return.value,
         vector |-> vector, n_hits |-> Len(outcome.hits)]

\* ------------------------------------------------------------------
\* ui_app.py
\* ------------------------------------------------------------------
\* Values of the sidebar widgets.
FormInputs ==
    {[monthly_income |-> 10000, loan_amount |-> 10000, loan_tenure |-> 24,
      cibil_score |-> 760, existing_emis |-> 900, loan_type |-> "Personal Loan",
      employment_status |-> "Salaried", property_ownership |-> "Owned",
      purpose_of_loan |-> "Education", applicant_age |-> 32, dependents |-> 1],
     [monthly_income |-> 5000, loan_amount |-> 8000, loan_tenure |-> 36,
      cibil_score |-> 680, existing_emis |-> 1200, loan_type |-> "Home Loan",
      employment_status |-> "Student", property_ownership |-> "Owned",
      purpose_of_loan |-> "Education", applicant_age |-> 34, dependents |-> 2]}

\* Lines 97-113: the application dictionary built from the widgets
\* (debt_to_income_ratio in units of 1/10000, interest_rate_offered 9.5 in 1/100).
BuildApplication(form) ==
    LET debt_to_income ==
            IF form.monthly_income > 0
            THEN (form.existing_emis * 10000) \div form.monthly_income
            ELSE 0
    IN  [monthly_income            |-> form.monthly_income,
         existing_emis_monthly     |-> form.existing_emis,
         debt_to_income_ratio      |-> debt_to_income,
         loan_amount_requested     |-> form.loan_amount,
         loan_tenure_months        |-> form.loan_tenure,
         interest_rate_offered     |-> 950,
         cibil_score               |-> form.cibil_score,
         applicant_age             |-> form.applicant_age,
         number_of_dependents      |-> form.dependents,
         employment_status         |-> form.employment_status,
         property_ownership_status |-> form.property_ownership,
         loan_type                 |-> form.loan_type,
         purpose_of_loan           |-> form.purpose_of_loan]

\* pct > threshold for an exact fraction.
PctGt(pct, threshold) == pct.num > threshold * pct.den
PctGe(pct, threshold) == pct.num >= threshold * pct.den

risk_segment_inclusive(defaulted_pct) ==
    IF PctGe(defaulted_pct, 60) THEN "High Risk (Similarity-Based)"
    ELSE IF PctGe(defaulted_pct, 30) THEN "Moderate Risk (Similarity-Based)"
    ELSE "Low Risk (Similarity-Based)"

\* Lines 130-141.
risk_segment(defaulted_pct) ==
    IF PctGt(defaulted_pct, 60) THEN "High Risk (Similarity-Based)"
    ELSE IF PctGt(defaulted_pct, 30) THEN "Moderate Risk (Similarity-Based)"
    ELSE "Low Risk (Similarity-Based)"

\* Lines 169-178: the counts behind the pie chart.
RECURSIVE outcome_counts(_, _)
outcome_counts(cases, n) ==
    IF n = 0 THEN [o \in {"Repaid", "Defaulted", "In Progress"} |-> 0]
    ELSE LET counts  == outcome_counts(cases, n - 1)
             outcome == Get(cases[n], "loan_outcome", None)
         IN  IF outcome = "Repaid"
             THEN [counts EXCEPT !["Repaid"] = @ + 1]
             ELSE IF outcome = "Defaulted"
             THEN [counts EXCEPT !["Defaulted"] = @ + 1]
             ELSE [counts EXCEPT !["In Progress"] = @ + 1]

\* Lines 119-247 for the cached result: what the page shows, and the report
\* when its button was the one pressed.
Render(trigger, search, n_hits, result, application, path) ==
    [trigger        |-> trigger,
     search         |-> search,
     n_hits         |-> n_hits,
     shown          |-> "result",
     error          |-> None,
     rendered       |-> Some(result),
     risk_segment   |-> risk_segment(result.defaulted_pct),
     outcome_counts |-> Some(outcome_counts(result.cases, Len(result.cases))),
     report         |-> IF trigger = "pdf"
                        THEN Some([application_data |-> application,
                                   result_summary   |-> result,
                                   chart_path       |-> path])
                        ELSE None]

\* The rows an index can hold, as the labeler and the ingestion write them:
\* in progress, repaid, defaulted early, fraudulent.
AppColumns ==
    LET raw(fraud, months, tenure) ==
            [application_date |-> <<2024, 1, 10>>, fraud_flag |-> fraud,
             time_to_default_months |-> months, loan_tenure_months |-> tenure]
        col(l) == [loan_outcome           |-> l.loan_outcome,
                   fraud_flag             |-> l.fraud_flag,
                   time_to_default_months |-> l.time_to_default_months]
    IN  <<col(LabelRow(raw(0, NaN, 60), FirstClock)),
          col(LabelRow(raw(0, NaN, 48), FirstClock)),
          col(LabelRow(raw(0, Some(6), 60), FirstClock)),
          col(LabelRow(raw(1, NaN, 60), FirstClock))>>

MaxPoints == 10

RECURSIVE SumList4(_, _)
SumList4(c, n) == IF n = 0 THEN 0 ELSE SumList4(c, n - 1) + c[n]

\* The collection after an ingestion of c[j] rows of kind j, kind by kind.
Collection(c) ==
    {[id      |-> i,
      vector  |-> transform(DeployedPreprocessor,
                            DeployedCorpus[(i % Len(DeployedCorpus)) + 1]),
      payload |-> Payload(CsvRow(
                     AppColumns[CHOOSE j \in DOMAIN AppColumns :
                                   SumList4(c, j - 1) <= i /\ i < SumList4(c, j)],
                     i + 1))] : i \in 0..(SumList4(c, Len(AppColumns)) - 1)}

Collections ==
    {Collection(c) : c \in {d \in [DOMAIN AppColumns -> 0..MaxPoints] :
                               SumList4(d, Len(AppColumns)) <= MaxPoints}}

\* The app starts with the joblib preprocessor loaded and an ingested collection.
Init ==
    /\ clock = FirstClock
    /\ raw_df = <<>>
    /\ labelled_df = <<>>
    /\ prev_labelled = <<>>
    /\ corpus = DeployedCorpus
    /\ preprocessor = Some(DeployedPreprocessor)
    /\ vectors = <<>>
    /\ query_vector = None
    /\ IngestIdle
    /\ index \in Collections
    /\ UiIdle
    /\ EngineImported

\* A call that refits the preprocessor on the record it is given.
FittedAfterFitTransform(pre, loan_dict) == fit(<<loan_dict>>)

\* preprocessor.transform(df) inside find_similar_loans: the fitted parameters
\* the module holds after the call are the ones it held before.
FittedAfterTransform(pre, loan_dict) == pre

\* A page that caches the application before the analysis has returned.
StoreApplicationFirst(r, application, cached_result, cached_application) ==
    [analysis_result  |-> IF r.raised THEN cached_result ELSE r.value,
     application_data |-> Some(application)]

\* Lines 116-117: both session entries are assigned after find_similar_loans
\* has returned; an exception leaves the statement before either assignment.
StoreAnalysis(r, application, cached_result, cached_application) ==
    IF r.raised
    THEN [analysis_result |-> cached_result, application_data |-> cached_application]
    ELSE [analysis_result |-> r.value, application_data |-> Some(application)]

\* One run of the script.  trigger is the widget that caused the rerun: the
\* Analyze button, the report button (only on a page that shows one), or any
\* other widget.
Rerun ==
    /\ \E trigger \in {"analyze", "pdf", "other"} :
          IF trigger = "analyze"
          THEN \E form \in FormInputs, fault \in Faults :
                  \E application \in {BuildApplication(form)} :
                  \E r \in {find_similar_loans(application, 10, fault)} :
                  \E session \in {StoreAnalysis(r, application, analysis_result,
                                                application_data)} :
                  LET search == IF fault = "" THEN "ok" ELSE "failed"
                  IN  /\ query_vector' = Some(r.vector)
                      /\ preprocessor' =
                            Some(FittedAfterTransform(preprocessor[1], application))
                      /\ analysis_result' = session.analysis_result
                      /\ application_data' = session.application_data
                      /\ IF r.raised
                         THEN /\ ui_run' = [NoRun EXCEPT !.trigger = trigger,
                                                         !.search = search,
                                                         !.n_hits = r.n_hits,
                                                         !.shown = "exception",
                                                         !.error = r.error]
                              /\ UNCHANGED <<chart_path, result_source>>
                         ELSE /\ result_source' = Some(application)
                              /\ chart_path' = Some("outcome_distribution.png")
                              /\ ui_run' = Render(trigger, search, r.n_hits, r.value[1],
                                                  application, chart_path')
          ELSE /\ trigger = "pdf" => ui_run.shown = "result"
               /\ IF analysis_result # None
                  THEN /\ chart_path' = Some("outcome_distribution.png")
                       /\ ui_run' = Render(trigger, "none", 0, analysis_result[1],
                                           application_data[1], chart_path')
                  ELSE /\ chart_path' = chart_path
                       /\ ui_run' = [NoRun EXCEPT !.trigger = trigger, !.shown = "info"]
               /\ UNCHANGED <<analysis_result, application_data, query_vector,
                              preprocessor, result_source>>
    /\ UNCHANGED <<corpus, vectors, labelVars, ingVars, index, startVars>>

Next == Rerun

Spec == Init /\ [][Next]_vars


\* ------------------------------------------------------------------
\* Properties of the similarity engine and the page
\* ------------------------------------------------------------------
High     == "High Risk (Similarity-Based)"
Moderate == "Moderate Risk (Similarity-Based)"
Low      == "Low Risk (Similarity-Based)"

\* C1 (as claimed): a cached summary over at least one case has
\* repaid_pct + defaulted_pct + in_progress_pct = 100.
C1_PercentagesSumTo100 ==
    (analysis_result # None /\ analysis_result[1].total_cases > 0) =>
        LET r == analysis_result[1]
        IN  /\ r.repaid_pct.den = r.total_cases
            /\ r.defaulted_pct.den = r.total_cases
            /\ r.in_progress_pct.den = r.total_cases
            /\ r.repaid_pct.num + r.defaulted_pct.num + r.in_progress_pct.num
                  = 100 * r.total_cases

\* C2: a search that succeeds with no hits makes find_similar_loans return the
\* zero-filled summary, for every application and every k, and the page shows
\* that summary instead of an exception.
C2_EmptyResultZeroSummary ==
    LET zero == [num |-> 0, den |-> 1]
        empty == [total_cases |-> 0, repaid_pct |-> zero, defaulted_pct |-> zero,
                  in_progress_pct |-> zero, fraud_cases |-> 0,
                  avg_similarity |-> zero, cases |-> <<>>]
    IN  /\ (ui_run.search = "ok" /\ ui_run.n_hits = 0) =>
              /\ ui_run.shown = "result"
              /\ ui_run.rendered = Some(empty)
              /\ analysis_result = Some(empty)
        /\ index = {} =>
              \A form \in FormInputs : \A k \in 1..TOP_K :
                 LET r == find_similar_loans(BuildApplication(form), k, "")
                 IN  ~r.raised /\ r.value = Some(empty)

\* An analysis against the empty collection has run and its summary is shown.
C2_Witness ==
    /\ index = {}
    /\ ui_run.trigger = "analyze"
    /\ ui_run.search = "ok"
    /\ ui_run.n_hits = 0
    /\ ui_run.shown = "result"

\* C3 (as claimed): every case whose label is neither "Repaid" nor "Defaulted"
\* is counted in in_progress_pct, so the three percentages are the three counts
\* of the pie chart over the same cases.
C3_PermissiveBucketing ==
    (ui_run.shown = "result" /\ ui_run.rendered[1].total_cases > 0) =>
        LET r     == ui_run.rendered[1]
            c     == ui_run.outcome_counts[1]
            other == Cardinality({i \in DOMAIN r.cases :
                        r.cases[i].loan_outcome \notin {"Repaid", "Defaulted"}})
        IN  /\ r.in_progress_pct.num * r.total_cases
                  = 100 * other * r.in_progress_pct.den
            /\ r.in_progress_pct.num * r.total_cases
                  = 100 * c["In Progress"] * r.in_progress_pct.den
            /\ r.repaid_pct.num * r.total_cases
                  = 100 * c["Repaid"] * r.repaid_pct.den
            /\ r.defaulted_pct.num * r.total_cases
                  = 100 * c["Defaulted"] * r.defaulted_pct.den

\* C7: a run whose search failed ends in the RuntimeError that carries the
\* client's error, shows no summary, and leaves the cached result and
\* application as they were.
C7_FailedSearchRaisesAndStoresNothing ==
    [][ui_run'.search = "failed" =>
          /\ ui_run'.shown = "exception"
          /\ ui_run'.rendered = None
          /\ ui_run'.error # None
          /\ ui_run'.error[1][2] \in SearchErrors
          /\ analysis_result' = analysis_result
          /\ application_data' = application_data]_vars

\* A search failed while a result of an earlier analysis was cached.
C7_Witness ==
    /\ ui_run.search = "failed"
    /\ ui_run.shown = "exception"
    /\ analysis_result # None
    /\ analysis_result[1].total_cases > 0

\* C8: the segment shown is High when defaulted_pct > 60, Moderate when
\* 30 < defaulted_pct <= 60 and Low when defaulted_pct <= 30.
C8_RiskSegmentThresholds ==
    ui_run.shown = "result" =>
        LET d == ui_run.rendered[1].defaulted_pct
        IN  /\ ui_run.risk_segment \in {High, Moderate, Low}
            /\ d.num > 60 * d.den => ui_run.risk_segment = High
            /\ (30 * d.den < d.num /\ d.num <= 60 * d.den)
                  => ui_run.risk_segment = Moderate
            /\ d.num <= 30 * d.den => ui_run.risk_segment = Low

\* A summary with defaulted_pct exactly 60 is shown as Moderate.
C8_Witness ==
    /\ ui_run.shown = "result"
    /\ ui_run.rendered[1].total_cases > 0
    /\ ui_run.rendered[1].defaulted_pct.num = 60 * ui_run.rendered[1].defaulted_pct.den
    /\ ui_run.risk_segment = Moderate

\* ------------------------------------------------------------------
\* Script start (similarity_engine.py 12-51, qdrant_ingest.py 10-36,
\* query_qdrant.py 9-37) followed by the script's first index request
\* ------------------------------------------------------------------
InitStartup ==
    /\ clock = FirstClock
    /\ raw_df = <<>>
    /\ labelled_df = <<>>
    /\ prev_labelled = <<>>
    /\ corpus = <<>>
    /\ preprocessor \in {None, Some(DeployedPreprocessor)}
    /\ vectors = <<>>
    /\ query_vector = None
    /\ IngestIdle
    /\ index = {}
    /\ analysis_result = None
    /\ application_data = None
    /\ chart_path = None
    /\ ui_run = NoRun
    /\ result_source = None
    /\ environ \in [EnvKeys -> EnvValues]
    /\ dotenv \in [EnvKeys -> {None, Some("configured")}]
    /\ startup = [s \in Scripts |-> NotStarted]

\* The interpreter runs the module-level statements of one script.
RunStartup(script) ==
    /\ startup[script].pc = "not run"
    /\ startup' = [startup EXCEPT ![script] = ScriptStartup(script, preprocessor)]
    /\ UNCHANGED <<environ, dotenv, labelVars, encVars, ingVars, index, uiVars>>

\* The started script sends its first request (client.search in the engine
\* and in query_qdrant.py, client.upsert in the ingestion) on its client.
IssueRequest(script) ==
    /\ startup[script].pc = "ready"
    /\ startup' = [startup EXCEPT ![script].pc = "requested"]
    /\ UNCHANGED <<environ, dotenv, labelVars, encVars, ingVars, index, uiVars>>

NextStartup == \E script \in Scripts : RunStartup(script) \/ IssueRequest(script)

SpecStartup == InitStartup /\ [][NextStartup]_vars

\* The payloads of a summary whose fraud flag is set.
Flagged(cases) ==
    {i \in DOMAIN cases : "fraud_flag" \in DOMAIN cases[i] /\ cases[i].fraud_flag = 1}

\* A payload as another writer could have stored it, without its fraud flag.
WithoutFlag(payload) == [key \in DOMAIN payload \ {"fraud_flag"} |-> payload[key]]

\* C13: in the cached summary fraud_cases is the number of returned payloads
\* whose fraud flag is set and lies between 0 and total_cases; the same
\* payloads with one of them stripped of its flag count that one as not fraud.
C13_FraudCasesCountsFlags ==
    analysis_result # None =>
        LET result == analysis_result[1]
            cases  == result.cases
        IN  /\ result.fraud_cases = Cardinality(Flagged(cases))
            /\ 0 <= result.fraud_cases
            /\ result.fraud_cases <= result.total_cases
            /\ \A i \in DOMAIN cases :
                  \A stripped \in {[cases EXCEPT ![i] = WithoutFlag(cases[i])]} :
                     Counts(stripped, [j \in DOMAIN cases |-> 0]).fraud_cases
                        = Cardinality(Flagged(cases) \ {i})

\* A summary over several neighbours, some flagged as fraud and some not,
\* among them a defaulted loan that is not a fraud.
C13_Witness ==
    /\ analysis_result # None
    /\ analysis_result[1].fraud_cases >= 2
    /\ analysis_result[1].fraud_cases < analysis_result[1].total_cases
    /\ \E i \in DOMAIN analysis_result[1].cases :
          /\ analysis_result[1].cases[i].loan_outcome = "Defaulted"
          /\ analysis_result[1].cases[i].fraud_flag = 0

\* A run whose Analyze button was pressed has called find_similar_loans.
Called == ui_run.trigger = "analyze"

\* Asked again with the application of the run just made, the engine gives
\* the summary that run cached.
SameAnswerAgain ==
    (Called /\ ui_run.search = "ok") =>
        \A again \in {find_similar_loans(application_data[1], 10, "")} :
            /\ ~again.raised
            /\ again.value = analysis_result
            /\ Some(again.vector) = query_vector

\* A step in which the engine was called leaves what it shares alone.
CallLeavesSharedState ==
    Called' =>
        /\ preprocessor' = preprocessor
        /\ index' = index
        /\ batches' = batches
        /\ corpus' = corpus

\* C15: no call of find_similar_loans, whether it returns a summary, the
\* empty summary or raises, changes the fitted preprocessor or the stored
\* points or sends an upsert request; the same application asked again
\* with k = 10 gets the same summary.
C15_EngineLeavesSharedStateAlone ==
    /\ [][CallLeavesSharedState]_vars
    /\ []SameAnswerAgain

\* The engine has answered over a non-empty collection, and the fitted
\* preprocessor and the collection are the deployed ones.
C15_Witness ==
    /\ Called
    /\ ui_run.search = "ok"
    /\ ui_run.n_hits >= 2
    /\ analysis_result # None
    /\ analysis_result[1].total_cases = ui_run.n_hits
    /\ preprocessor = Some(DeployedPreprocessor)
    /\ Cardinality(index) >= 2

\* The cached result is never without the application it was computed for.
CachedPairBelongsTogether ==
    analysis_result # None =>
        /\ application_data # None
        /\ application_data = result_source

\* A failed analysis keeps the cached pair.
FailedAnalysisKeepsPair ==
    (ui_run'.trigger = "analyze" /\ ui_run'.search = "failed") =>
        /\ analysis_result' = analysis_result
        /\ application_data' = application_data

\* A rerun caused by any other widget sends nothing to the index and keeps
\* the cached pair.
OtherRerunSendsNoQuery ==
    ui_run'.trigger # "analyze" =>
        /\ ui_run'.search = "none"
        /\ ui_run'.n_hits = 0
        /\ query_vector' = query_vector
        /\ analysis_result' = analysis_result
        /\ application_data' = application_data

\* C16: in a session, a cached analysis_result always comes with the
\* application_data it was computed for; an analysis that fails leaves both
\* entries as they were; a rerun without the Analyze button sends no query.
C16_SessionCacheConsistent ==
    /\ []CachedPairBelongsTogether
    /\ [][FailedAnalysisKeepsPair /\ OtherRerunSendsNoQuery]_vars

\* After a successful analysis of one application, the analysis of another
\* one has failed: the page still caches the first pair.
C16_Witness ==
    /\ ui_run.trigger = "analyze"
    /\ ui_run.search = "failed"
    /\ analysis_result # None
    /\ analysis_result[1].total_cases > 0
    /\ application_data = result_source
    /\ query_vector # Some(transform(preprocessor[1], application_data[1]))

\* ------------------------------------------------------------------
\* Properties of the script start
\* ------------------------------------------------------------------
\* The configured value of a key as the script sees it, stated from the
\* environment and the .env file.
Configured(script, key) ==
    IF script = "similarity_engine" \/ environ[key] # None
    THEN environ[key] ELSE dotenv[key]

Absent(script, key) == Configured(script, key) \in {None, Some("")}

\* C12: a script whose endpoint or credential is absent from its
\* configuration ends its start with an error, never holds an index client
\* and never sends a request; a client that exists points at the configured
\* endpoint with the configured credential, never at a default.
C12_MissingConfigFailsStartup ==
    \A script \in Scripts :
        /\ (Absent(script, UrlKey(script)) \/ Absent(script, ApiKey(script))) =>
              /\ startup[script].pc \in {"not run", "raised"}
              /\ startup[script].client = None
              /\ startup[script].pc = "raised" =>
                    startup[script].error = Some(MissingConfigError(script))
        /\ startup[script].client # None =>
              /\ startup[script].client[1].url = Configured(script, UrlKey(script))
              /\ startup[script].client[1].api_key = Configured(script, ApiKey(script))
              /\ startup[script].client[1].url \notin {None, Some(""), Some("localhost")}

\* The ingestion, with its credential absent from both the environment and
\* .env, has raised, while the configured engine has sent a query.
C12_Witness ==
    /\ environ.Api = None
    /\ dotenv.Api = None
    /\ environ.url = Some("configured")
    /\ startup["qdrant_ingest"].pc = "raised"
    /\ startup["qdrant_ingest"].error = Some("ValueError")
    /\ startup["similarity_engine"].pc = "requested"

\* ------------------------------------------------------------------
\* Properties of the ingestion
\* ------------------------------------------------------------------
\* C9: however often the ingestion has run over the rows, the collection never
\* holds two points of one id, and after a run it holds exactly one point per
\* row index, carrying the outcome, fraud flag and vector that run read.
C9_OnePointPerRowLatestPayload ==
    /\ \A p \in index : \A q \in index : p.id = q.id => p = q
    /\ ing_pc = "done" =>
          /\ {p.id : p \in index} = 0..(Len(ing_df) - 1)
          /\ \A p \in index :
                /\ p.payload.application_id = ing_df[p.id + 1].application_id
                /\ p.payload.loan_outcome = ing_df[p.id + 1].loan_outcome
                /\ p.payload.fraud_flag = ing_df[p.id + 1].fraud_flag
                /\ p.vector = ing_vectors[p.id + 1]

\* A run over more rows than one batch has finished after replacing points an
\* earlier run had stored with different payloads.
C9_Witness ==
    /\ ing_pc = "done"
    /\ overwrote
    /\ Len(ing_df) > BATCH_SIZE
    /\ Cardinality(index) = Len(ing_df)

\* The points of the upsert requests of the current run, in the order sent.
RECURSIVE Flatten(_, _)
Flatten(requests, k) ==
    IF k = 0 THEN <<>> ELSE Flatten(requests, k - 1) \o requests[k]

\* Every request sent so far holds 1..BATCH_SIZE points, the requests follow
\* the rows in order without gap or repeat, and a finished run has sent all.
BatchesCoverRowsInOrder ==
    ing_pc \in {"loop", "done"} =>
        \A sent \in {Flatten(batches, Len(batches))} :
            /\ \A b \in DOMAIN batches :
                  Len(batches[b]) >= 1 /\ Len(batches[b]) <= BATCH_SIZE
            /\ start = BATCH_SIZE * Len(batches)
            /\ Len(sent) = Min(start, Len(ing_df))
            /\ ing_pc = "done" => Len(sent) = Len(ing_df)
            /\ Len(ing_df) = 0 => batches = <<>>
            /\ \A i \in DOMAIN sent :
                  /\ sent[i].id = i - 1
                  /\ sent[i].vector = ing_vectors[i]
                  /\ sent[i].payload.application_id = ing_df[i].application_id
                  /\ sent[i].payload.loan_outcome = ing_df[i].loan_outcome
                  /\ sent[i].payload.fraud_flag = ing_df[i].fraud_flag
                  /\ sent[i].payload.time_to_default_months
                        = ing_df[i].time_to_default_months

\* C14: a started ingestion run reaches its end for every row count; its
\* upsert requests are non-empty, hold at most BATCH_SIZE points and carry
\* the rows 0..n-1 in increasing order, each exactly once with its own
\* vector and payload; a run over no rows sends no request.
C14_LoopTerminatesEachRowOnce ==
    /\ []BatchesCoverRowsInOrder
    /\ (ing_pc = "loop") ~> (ing_pc = "done")

\* A finished run over a row count that is no multiple of BATCH_SIZE: the
\* last request is shorter than the others.
C14_Witness ==
    /\ ing_pc = "done"
    /\ Len(ing_df) > BATCH_SIZE
    /\ (Len(ing_df) % BATCH_SIZE) # 0
    /\ Len(batches) = (Len(ing_df) \div BATCH_SIZE) + 1
    /\ Len(batches[Len(batches)]) = (Len(ing_df) % BATCH_SIZE)

\* ------------------------------------------------------------------
\* Properties of the encoder
\* ------------------------------------------------------------------
\* Number of distinct values of a categorical column of the fit corpus.
Distinct(f) == Cardinality({corpus[i][f] : i \in DOMAIN corpus})

FittedDimension ==
    Len(numerical_features)
        + Distinct("employment_status") + Distinct("property_ownership_status")
        + Distinct("loan_type") + Distinct("purpose_of_loan")

\* C10: every vector the fitted encoder produces, for corpus rows and for the
\* query sent to the index, has 9 + (distinct category values of the corpus
\* over the 4 categorical fields) entries, also for unseen category values.
C10_VectorLengthFixed ==
    /\ Len(numerical_features) = 9
    /\ Len(categorical_features) = 4
    /\ \A i \in DOMAIN vectors : Len(vectors[i]) = FittedDimension
    /\ query_vector # None => Len(query_vector[1]) = FittedDimension

\* A query whose loan_type block is all zero (a value absent from the corpus)
\* was encoded beside the corpus vectors.
C10_Witness ==
    /\ preprocessor # None
    /\ vectors # <<>>
    /\ query_vector # None
    /\ Distinct("loan_type") < Cardinality(Range(SortedValues.loan_type))
    /\ LET first == Len(numerical_features) + Distinct("employment_status")
                        + Distinct("property_ownership_status")
       IN  \A j \in (first + 1)..(first + Distinct("loan_type")) :
               query_vector[1][j] = Zero


\* First position, in a vector, of the one-hot block of categorical field k:
\* after the numeric entries and the blocks of the fields before it.
RECURSIVE BlockStart(_)
BlockStart(k) ==
    IF k = 1 THEN Len(numerical_features) + 1
    ELSE BlockStart(k - 1) + Distinct(categorical_features[k - 1])

BlockOf(v, k) ==
    [j \in 1..Distinct(categorical_features[k]) |-> v[BlockStart(k) + j - 1]]

SeenAtFit(f, value) == \E i \in DOMAIN corpus : corpus[i][f] = value

\* C11: with the fitted preprocessor, every record encodes without error; a
\* categorical value absent from the fit corpus gives an all-zero block for
\* its field, a value present in it gives exactly one 1, and the block of a
\* field is the same for any two records that agree on that field, whatever
\* the other fields hold.
C11_UnseenCategoryZeroBlock ==
    preprocessor # None =>
        \A enc \in {[rec \in ApplicationRecords |-> transform(preprocessor[1], rec)]} :
        \A rec \in ApplicationRecords :
            /\ Len(enc[rec]) = FittedDimension
            /\ \A k \in DOMAIN categorical_features :
               \A block \in {BlockOf(enc[rec], k)} :
                  LET f    == categorical_features[k]
                      ones == Cardinality({j \in DOMAIN block : block[j] = One})
                  IN  /\ \A j \in DOMAIN block : block[j] \in {Zero, One}
                      /\ ones = IF SeenAtFit(f, rec[f]) THEN 1 ELSE 0
                      /\ \A other \in ApplicationRecords :
                            other[f] = rec[f] => BlockOf(enc[other], k) = block

\* The query last encoded carries a loan_type the corpus does not hold (its
\* block is all zero) and an employment_status it does hold (one 1).
C11_Witness ==
    /\ preprocessor # None
    /\ query_vector # None
    /\ Distinct("loan_type") >= 1
    /\ Distinct("loan_type") < Cardinality(Range(SortedValues.loan_type))
    /\ \A j \in DOMAIN BlockOf(query_vector[1], 3) : BlockOf(query_vector[1], 3)[j] = Zero
    /\ Cardinality({j \in DOMAIN BlockOf(query_vector[1], 1) :
                       BlockOf(query_vector[1], 1)[j] = One}) = 1

\* ------------------------------------------------------------------
\* Properties of the outcome labeler
\* ------------------------------------------------------------------
Labels == {"Repaid", "Defaulted", "In_Progress"}

FraudOrEarly(r) ==
    r.fraud_flag = 1
    \/ (r.time_to_default_months # NaN /\ r.time_to_default_months[1] <= 6)

\* C4: a written row is labelled Defaulted exactly when its fraud flag is set
\* or its months-to-default is non-null and <= 6, whatever its age and tenure.
C4_DefaultedIffFraudOrEarly ==
    \A i \in DOMAIN labelled_df :
        (labelled_df[i].loan_outcome = "Defaulted") <=> FraudOrEarly(labelled_df[i])

\* A fraudulent or early-defaulted row whose age has reached its tenure was
\* labelled, and is Defaulted.
C4_Witness ==
    \E i \in DOMAIN labelled_df :
        /\ FraudOrEarly(labelled_df[i])
        /\ labelled_df[i].loan_age_months # NaN
        /\ labelled_df[i].loan_age_months[1] >= labelled_df[i].loan_tenure_months * 10
        /\ labelled_df[i].loan_outcome = "Defaulted"

\* C5: a row that is neither fraudulent nor early-defaulted is Repaid when its
\* loan_age_months >= its tenure and In_Progress when its loan_age_months < its
\* tenure; every input row gets exactly one of the three labels.
C5_RepaidOrInProgressByAge ==
    /\ labelled_df # <<>> => Len(labelled_df) = Len(raw_df)
    /\ \A i \in DOMAIN labelled_df :
          LET r == labelled_df[i]
          IN  /\ r.loan_outcome \in Labels
              /\ r.fraud_flag = raw_df[i].fraud_flag
              /\ r.loan_tenure_months = raw_df[i].loan_tenure_months
              /\ r.time_to_default_months = raw_df[i].time_to_default_months
              /\ (~FraudOrEarly(r) /\ r.loan_age_months # NaN) =>
                    /\ r.loan_age_months[1] >= r.loan_tenure_months * 10
                          => r.loan_outcome = "Repaid"
                    /\ r.loan_age_months[1] < r.loan_tenure_months * 10
                          => r.loan_outcome = "In_Progress"

\* One row whose age equals its tenure exactly is Repaid, beside one that is
\* younger than its tenure and In_Progress.
C5_Witness ==
    /\ \E i \in DOMAIN labelled_df :
          /\ ~FraudOrEarly(labelled_df[i])
          /\ labelled_df[i].loan_age_months = Some(labelled_df[i].loan_tenure_months * 10)
          /\ labelled_df[i].loan_outcome = "Repaid"
    /\ \E i \in DOMAIN labelled_df :
          /\ ~FraudOrEarly(labelled_df[i])
          /\ labelled_df[i].loan_age_months # NaN
          /\ labelled_df[i].loan_age_months[1] < labelled_df[i].loan_tenure_months * 10
          /\ labelled_df[i].loan_outcome = "In_Progress"

\* C6 (as claimed): two runs over the same records give every record the same
\* label, whatever the system clock said when each run started.
C6_LabelIndependentOfClock ==
    (labelled_df # <<>> /\ prev_labelled # <<>>) =>
        \A i \in DOMAIN labelled_df :
            labelled_df[i].loan_outcome = prev_labelled[i].loan_outcome

====
